---- MODULE Spec2Model ----
(***************************************************************************)
(* PulsePress ingestion pipeline: the fetch / process / publish workers    *)
(* (src/src/lib/redis.ts), the queues and their job options                *)
(* (src/src/jobs/scheduler.ts), the operator's manual retry                *)
(* (src/src/routes/monitor.ts), the test producers (src/src/routes/test.ts)*)
(* the content analyzer (src/unnamed/part_001) and the deduplicator        *)
(* (src/src/services/ingestion/deduplicator.ts).                           *)
(*                                                                         *)
(* Strings are modelled by what the code reads of them: a title is a       *)
(* sequence of characters, a link is the URL's parts that normalizeUrl     *)
(* looks at, a content is the measures the gates compare (lengths, word    *)
(* count, snippet marker, embedded image).                                 *)
(***************************************************************************)
EXTENDS Integers, Sequences, FiniteSets, TLC

VARIABLES sources, articles, jobs, manualRetries, runs, probe

vars == <<sources, articles, jobs, manualRetries, runs, probe>>

-----------------------------------------------------------------------------
(* Bounds of the model *)

MaxFetchJobs == 1
MaxProcessJobs == 2
MaxPublishJobs == 1
MaxFeed == 2
MaxManualRetries == 1
MaxRuns == 3

-----------------------------------------------------------------------------
(* Program constants *)

FetchAttempts == 3
ProcessAttempts == 2
PublishAttempts == 1
FetchConcurrency == 5
ProcessConcurrency == 3
PublishConcurrency == 10
MinContentLength == 500
ScrapedMinLength == 500
FullMinWords == 250
FullMinChars == 1000
SlugMaxLength == 100

NoLink == [base |-> "", q |-> FALSE, up |-> FALSE, abs |-> FALSE]
NoImage == ""
NULL == "NULL"

-----------------------------------------------------------------------------
(* Titles: sequences of characters; slug derivation of processWorker *)

LowerChar(c) == IF c = "A" THEN "a" ELSE IF c = "B" THEN "b" ELSE c

ToLowerCase(s) == [i \in 1..Len(s) |-> LowerChar(s[i])]

IsWordChar(c) == c \in {"a", "b", "A", "B", "_", "0"}

IsSpace(c) == c = " "

\* .replace(/[^\w\s-]/g, "")
StripNonWord(s) == SelectSeq(s, LAMBDA c : IsWordChar(c) \/ IsSpace(c) \/ c = "-")

\* the characters of s at the positions of keep, in order
AtPositions(s, keep) ==
    LET pos(k) == CHOOSE i \in keep : Cardinality({j \in keep : j <= i}) = k
    IN  [k \in 1..Cardinality(keep) |-> s[pos(k)]]

\* .replace(/\s+/g, "-") : every maximal run of whitespace becomes one
\* hyphen (the last whitespace of each run is kept, as a hyphen)
SpacesToHyphen(s) ==
    LET keep == {i \in 1..Len(s) :
                    ~(IsSpace(s[i]) /\ i < Len(s) /\ IsSpace(s[i + 1]))}
        hyphened == [i \in 1..Len(s) |-> IF IsSpace(s[i]) THEN "-" ELSE s[i]]
    IN  AtPositions(hyphened, keep)

\* .replace(/-+/g, "-") : every maximal run of hyphens becomes one hyphen
CollapseHyphens(s) ==
    AtPositions(s, {i \in 1..Len(s) : ~(s[i] = "-" /\ i < Len(s) /\ s[i + 1] = "-")})

\* .trim() : leading and trailing whitespace only
RECURSIVE TrimLeft(_)
TrimLeft(s) == IF s # <<>> /\ IsSpace(Head(s)) THEN TrimLeft(Tail(s)) ELSE s

RECURSIVE TrimRight(_)
TrimRight(s) ==
    IF s # <<>> /\ IsSpace(s[Len(s)]) THEN TrimRight(SubSeq(s, 1, Len(s) - 1)) ELSE s

Trim(s) == TrimRight(TrimLeft(s))

Substring(s, n) == SubSeq(s, 1, IF Len(s) < n THEN Len(s) ELSE n)

Slug(title) ==
    Substring(Trim(CollapseHyphens(SpacesToHyphen(StripNonWord(ToLowerCase(title))))),
              SlugMaxLength)

-----------------------------------------------------------------------------
(* Links and normalizeUrl (deduplicator.ts).  A link is what normalizeUrl   *)
(* reads of the URL: its scheme+host+path (base), whether it carries a      *)
(* query string or fragment (q), whether it has upper-case letters (up),    *)
(* and whether new URL() can parse it (abs).                                *)

Link(b, q, up) == [base |-> b, q |-> q, up |-> up, abs |-> TRUE]

NormalizeUrl(url) ==
    IF url.abs
    THEN [url EXCEPT !.q = FALSE, !.up = FALSE]
    ELSE [url EXCEPT !.up = FALSE]

-----------------------------------------------------------------------------
(* Contents.  len = content.length, chars/words = the tag-stripped text's   *)
(* length and word count (getContentStats), plainLen = length of            *)
(* extractPlainText(cleanHTML(content)), marker = a snippet marker is       *)
(* present, img = the image extractImageUrl finds in it, dirty = it holds   *)
(* markup outside cleanHTML's allow-list, pad = it differs from its         *)
(* lower-cased trimmed form.                                                *)

Content(id, len, chars, words, plainLen, marker, img, dirty) ==
    [id |-> id, len |-> len, chars |-> chars, words |-> words, plainLen |-> plainLen,
     marker |-> marker, img |-> img, dirty |-> dirty, pad |-> FALSE]

EmptyContent == Content("", 0, 0, 0, 0, FALSE, NoImage, FALSE)

cFull == Content("full", 1200, 1100, 260, 1050, FALSE, NoImage, FALSE)
cSnip == Content("snip", 499, 480, 80, 470, TRUE, NoImage, FALSE)
cEdge == Content("edge", 500, 420, 70, 400, FALSE, "in.jpg", TRUE)
sBig  == Content("big", 2000, 1900, 400, 1800, FALSE, "og.jpg", TRUE)
sThin == Content("thin", 501, 490, 120, 480, FALSE, "og.jpg", FALSE)

\* scrapeArticle's result for a candidate's link: null (any error, non-200,
\* unreadable page) or the scraped article's content
NoScrape == EmptyContent
ScrapeResults == {NoScrape, sBig, sThin}

\* cleanHTML: DOMPurify drops what is outside the allow-list
CleanHTML(c) == [c EXCEPT !.dirty = FALSE]

\* extractPlainText(cleanHTML(content)).length
PlainTextLength(c) == c.plainLen

\* content.toLowerCase().trim(), the text both content hashes are taken of
LowerTrim(c) == [id |-> c.id, dirty |-> c.dirty]

GenerateContentHash(c) == LowerTrim(c)

T1 == <<"A", " ", "b">>
T2 == <<"a", "-", "b", "!">>
T3 == <<"B">>

L1 == Link("u1", FALSE, FALSE)
L1q == Link("u1", TRUE, TRUE)
L2 == Link("u2", FALSE, FALSE)

Candidate(link, title, content, feedImage) ==
    [link |-> link, title |-> title, content |-> content, feedImage |-> feedImage]

\* the items a feed (or a scraped page) may hold
Candidates ==
    { Candidate(NoLink, T1, cFull, "feed.jpg"),
      Candidate(L1, T1, cFull, "feed.jpg"),
      Candidate(L1q, T2, cFull, NoImage),
      Candidate(L2, T3, cSnip, "feed.jpg"),
      Candidate(L2, T3, cSnip, NoImage),
      Candidate(L2, T3, cEdge, NoImage) }

-----------------------------------------------------------------------------
(* Content analyzer (src/unnamed/part_001) *)

IsFullContent(c) ==
    IF c.len = 0 THEN FALSE
    ELSE IF c.marker THEN FALSE
    ELSE c.words >= FullMinWords /\ c.chars >= FullMinChars

\* variant: a source marked rss-full is trusted whatever its content
NeedsScraping_TrustFull(c, sourceType) ==
    IF sourceType = "rss-scrape" THEN TRUE
    ELSE IF sourceType = "rss-full" THEN FALSE
    ELSE ~IsFullContent(c)

NeedsScraping(c, sourceType) ==
    IF sourceType = "rss-scrape" THEN TRUE
    ELSE IF sourceType = "rss-full" THEN ~IsFullContent(c)
    ELSE ~IsFullContent(c)

\* extractImageUrl(html, baseUrl): the best image of the html, or null
ExtractImageUrl(c) == c.img

-----------------------------------------------------------------------------
(* Deduplicator: isDuplicate(sourceUrl, title, content) against the stored  *)
(* articles; a failing lookup is caught and answers false.                  *)

\* variant: the title lookup is left out
IsDuplicate_NoTitleCheck(sourceUrl, title, content, arts, dbOk) ==
    IF ~dbOk THEN FALSE
    ELSE \/ \E a \in arts : a.source_url = NormalizeUrl(sourceUrl)
         \/ \E a \in arts : LowerTrim(a.content_original) = GenerateContentHash(content)

\* variant: a failed lookup is reported as a duplicate
IsDuplicate_FailClosed(sourceUrl, title, content, arts, dbOk) ==
    IF ~dbOk THEN TRUE
    ELSE \/ \E a \in arts : a.source_url = NormalizeUrl(sourceUrl)
         \/ \E a \in arts : ToLowerCase(a.title) = ToLowerCase(title)
         \/ \E a \in arts : LowerTrim(a.content_original) = GenerateContentHash(content)

IsDuplicate(sourceUrl, title, content, arts, dbOk) ==
    IF ~dbOk THEN FALSE
    ELSE \/ \E a \in arts : a.source_url = NormalizeUrl(sourceUrl)
         \/ \E a \in arts : ToLowerCase(a.title) = ToLowerCase(title)
         \/ \E a \in arts : LowerTrim(a.content_original) = GenerateContentHash(content)

-----------------------------------------------------------------------------
(* Source registry (news_sources rows).  "s0" and "test-source" have no row *)

SourceRow(type, active) ==
    [type |-> type, is_active |-> active, success_count |-> 0, error_count |-> 0,
     last_error |-> NULL, last_fetched_at |-> NULL]

InitSources ==
    [id \in {"s1", "s2", "s3", "s4"} |->
        CASE id = "s1" -> SourceRow("rss-full", TRUE)
          [] id = "s2" -> SourceRow("rss-scrape", TRUE)
          [] id = "s3" -> SourceRow("scraper", TRUE)
          [] id = "s4" -> SourceRow("rss", FALSE)]

SourceIds == {"s0", "s1", "s2", "s3", "s4"}

\* variant: the lookup forgets the is_active condition
ActiveSourceRows_AnyRow(srcs, id) == {r \in DOMAIN srcs : r = id}

\* SELECT * FROM news_sources WHERE id = $1 AND is_active = true
ActiveSourceRows(srcs, id) ==
    {r \in DOMAIN srcs : r = id /\ srcs[r].is_active}

\* SELECT id FROM news_sources WHERE id = $1
SourceRows(srcs, id) == {r \in DOMAIN srcs : r = id}

\* variant: the success update forgets the counter
RecordSuccess_NoCount(srcs, id) ==
    [r \in DOMAIN srcs |->
        IF r = id
        THEN [srcs[r] EXCEPT !.last_fetched_at = "NOW", !.last_error = NULL]
        ELSE srcs[r]]

\* UPDATE news_sources SET last_fetched_at = NOW(),
\*   success_count = success_count + 1, last_error = NULL WHERE id = $1
RecordSuccess(srcs, id) ==
    [r \in DOMAIN srcs |->
        IF r = id
        THEN [srcs[r] EXCEPT !.last_fetched_at = "NOW",
                             !.success_count = @ + 1,
                             !.last_error = NULL]
        ELSE srcs[r]]

\* UPDATE news_sources SET error_count = error_count + 1, last_error = $1
\*   WHERE id = $2
RecordFailure(srcs, id, message) ==
    [r \in DOMAIN srcs |->
        IF r = id
        THEN [srcs[r] EXCEPT !.error_count = @ + 1, !.last_error = message]
        ELSE srcs[r]]

-----------------------------------------------------------------------------
(* Error messages *)

ErrSource == "Source not found or inactive"
ErrFeed == "feed retrieval error"
ErrStorage == "storage error"
ErrHealth == "health counter update error"
ErrEnqueue == "enqueue error"
ErrInvalidSource == "Invalid source_id"
ErrTooShort == "Content too short"
ErrNoImage == "No image URL"
ErrEnrich == "AI service error"
ErrUnique == "duplicate key value violates unique constraint"
NoError == "none"

-----------------------------------------------------------------------------
(* Jobs and the queue runtime (BullMQ queues of scheduler.ts, workers of    *)
(* redis.ts).  opts.attempts is the total number of attempts of a job; a    *)
(* failed attempt with attempts left waits out its backoff as delayed.      *)

JobIds ==
    ({"fetch"} \X (1..MaxFetchJobs)) \cup ({"process"} \X (1..MaxProcessJobs))
        \cup ({"publish"} \X (1..MaxPublishJobs))

QueueOf(j) == j[1]

NoProducer == <<"none", 0, 0>>

NoData == [sourceId |-> "none"]

\* what the running attempt has met so far (kept until the next attempt)
FreshGhost ==
    [retrieved |-> FALSE, retrErr |-> "none", failureIssued |-> FALSE,
     allRejected |-> FALSE]

AbsentJob ==
    [state |-> "absent", attempts |-> 0, backoff |-> FALSE, delay |-> 0,
     attemptsMade |-> 0, data |-> NoData, by |-> NoProducer, manual |-> 0,
     pc |-> "idle", srcType |-> "none", total |-> 0, idx |-> 0, queued |-> 0,
     skipped |-> 0, failedReason |-> NoError, g |-> FreshGhost]

\* backoff: { type: "exponential", delay }: the base delay in milliseconds
FetchBackoffDelay == 5000
ProcessBackoffDelay == 10000

\* the options refreshSource passes to fetchQueue.add (handlers/sources.ts)
RefreshAttempts == 3
RefreshBackoffDelay == 2000

NewJob(data, attempts, backoff, by) ==
    [AbsentJob EXCEPT !.state = "waiting", !.attempts = attempts,
                      !.backoff = backoff, !.data = data, !.by = by]

\* variant: three retries after the first attempt
FetchJob_ThreeRetries(sourceId) ==
    [NewJob([sourceId |-> sourceId], FetchAttempts + 1, TRUE, NoProducer)
        EXCEPT !.delay = FetchBackoffDelay]

\* addFetchJob / addProcessJob / addPublishJob: the job options of each queue
FetchJob(sourceId) ==
    [NewJob([sourceId |-> sourceId], FetchAttempts, TRUE, NoProducer)
        EXCEPT !.delay = FetchBackoffDelay]

\* fetchQueue.add("fetch-source", { sourceId: id }, ...) of refreshSource
RefreshJob(sourceId) ==
    [NewJob([sourceId |-> sourceId], RefreshAttempts, TRUE, NoProducer)
        EXCEPT !.delay = RefreshBackoffDelay]

ProcessJob(data, by) ==
    [NewJob(data, ProcessAttempts, TRUE, by) EXCEPT !.delay = ProcessBackoffDelay]

PublishJob(articleId) ==
    NewJob([articleId |-> articleId], PublishAttempts, FALSE, NoProducer)

SlotsOf(queue) == {j \in DOMAIN jobs : QueueOf(j) = queue}

HasFreeSlot(js, queue) == \E j \in SlotsOf(queue) : js[j].state = "absent"

FreeSlot(js, queue) == CHOOSE j \in SlotsOf(queue) :
    /\ js[j].state = "absent"
    /\ \A k \in SlotsOf(queue) : js[k].state = "absent" => j[2] <= k[2]

\* queue.add(...)
Add(js, queue, job) == [js EXCEPT ![FreeSlot(js, queue)] = job]

Concurrency(queue) ==
    CASE queue = "fetch" -> FetchConcurrency
      [] queue = "process" -> ProcessConcurrency
      [] queue = "publish" -> PublishConcurrency

ActiveCount(js, queue) ==
    Cardinality({j \in SlotsOf(queue) : js[j].state = "active"})

\* the handler returned: the attempt ends completed; total, queued and
\* skipped stay as the job's return value
MoveToCompleted(job) ==
    [job EXCEPT !.state = "completed", !.pc = "idle", !.srcType = "none", !.idx = 0]

\* the handler threw: its locals are lost; the job is retried while attempts
\* are left, else it rests in failed
MoveToFailed(job, reason) ==
    [job EXCEPT !.state = IF job.attemptsMade < job.attempts
                          THEN (IF job.backoff THEN "delayed" ELSE "waiting")
                          ELSE "failed",
                !.pc = "idle", !.srcType = "none", !.total = 0, !.idx = 0,
                !.queued = 0, !.skipped = 0,
                !.failedReason = reason]

\* the last call of a function of the pipeline made on its own, outside a
\* worker: its arguments and its result
NoProbe == [op |-> "none"]

Init ==
    /\ sources = InitSources
    /\ articles = {}
    /\ jobs = [j \in JobIds |-> AbsentJob]
    /\ manualRetries = 0
    /\ runs = MaxRuns
    /\ probe = NoProbe

-----------------------------------------------------------------------------
(* Producers *)

\* POST /fetch/:sourceId (routes/test.ts): any source id
AddFetchJob(sourceId) ==
    /\ HasFreeSlot(jobs, "fetch")
    /\ jobs' = Add(jobs, "fetch", FetchJob(sourceId))
    /\ UNCHANGED <<probe, sources, articles, manualRetries, runs>>

TestArticle ==
    [sourceId |-> "test-source", title |-> T1, link |-> L2,
     content |-> Content("test", 66, 58, 10, 58, FALSE, NoImage, FALSE),
     imageUrl |-> NoImage]

\* POST /process-test (routes/test.ts)
ProcessTest ==
    /\ HasFreeSlot(jobs, "process")
    /\ jobs' = Add(jobs, "process", ProcessJob(TestArticle, NoProducer))
    /\ UNCHANGED <<probe, sources, articles, manualRetries, runs>>

\* addPublishJob(articleId) (exported by the queues module)
AddPublishJob(articleId) ==
    /\ HasFreeSlot(jobs, "publish")
    /\ jobs' = Add(jobs, "publish", PublishJob(articleId))
    /\ UNCHANGED <<probe, sources, articles, manualRetries, runs>>

-----------------------------------------------------------------------------
(* Queue runtime steps *)

\* a worker takes a waiting job: waiting -> active
StartJob(j) ==
    /\ jobs[j].state = "waiting"
    /\ ActiveCount(jobs, QueueOf(j)) < Concurrency(QueueOf(j))
    /\ runs > 0
    /\ runs' = runs - 1
    /\ jobs' = [jobs EXCEPT ![j] =
                  [@ EXCEPT !.state = "active", !.attemptsMade = @ + 1,
                            !.pc = "begin", !.g = FreshGhost]]
    /\ UNCHANGED <<probe, sources, articles, manualRetries>>

\* the backoff of a delayed job elapses: delayed -> waiting
PromoteDelayed(j) ==
    /\ jobs[j].state = "delayed"
    /\ jobs' = [jobs EXCEPT ![j].state = "waiting"]
    /\ UNCHANGED <<probe, sources, articles, manualRetries, runs>>

\* job.retry() moves a failed job back to waiting and throws for a job in
\* any other state
CanRetry(job) == job.state = "failed"

\* POST /retry/:queue/:jobId (routes/monitor.ts)
ManualRetry(j) ==
    /\ manualRetries < MaxManualRetries
    /\ CanRetry(jobs[j])
    /\ jobs' = [jobs EXCEPT ![j].state = "waiting", ![j].manual = @ + 1]
    /\ manualRetries' = manualRetries + 1
    /\ UNCHANGED <<probe, sources, articles, runs>>

-----------------------------------------------------------------------------
(* Fetch worker (redis.ts, fetchWorker) *)

IsRunning(j, queue, pc) ==
    /\ QueueOf(j) = queue
    /\ jobs[j].state = "active"
    /\ jobs[j].pc = pc

AttemptId(j, job) == <<j[1], j[2], job.attemptsMade>>

\* variant: the catch block records the failure and does not rethrow
Catch_NoRethrow(job, srcs, message, failOk) ==
    IF failOk
    THEN [job |-> MoveToCompleted([job EXCEPT !.g.failureIssued = TRUE]),
          sources |-> RecordFailure(srcs, job.data.sourceId, message)]
    ELSE [job |-> MoveToFailed([job EXCEPT !.g.failureIssued = TRUE], ErrHealth),
          sources |-> srcs]

\* lines 475-490: the catch block awaits the failure update, then rethrows;
\* when the update itself throws, its error is the one the handler throws
Catch(job, srcs, message, failOk) ==
    IF failOk
    THEN [job |-> MoveToFailed([job EXCEPT !.g.failureIssued = TRUE], message),
          sources |-> RecordFailure(srcs, job.data.sourceId, message)]
    ELSE [job |-> MoveToFailed([job EXCEPT !.g.failureIssued = TRUE], ErrHealth),
          sources |-> srcs]

IsRssType(t) == t \in {"rss-full", "rss-scrape", "rss"}

\* variant: a feed that cannot be read counts as an empty feed
Retrieve_SwallowFeedError(sourceType, answer, n) ==
    IF sourceType \in {"rss-full", "rss-scrape", "rss"}
    THEN [threw |-> FALSE, total |-> IF answer = "error" THEN 0 ELSE n,
          retrErr |-> IF answer = "error" THEN "rss" ELSE "none"]
    ELSE IF sourceType = "scraper"
    THEN [threw |-> FALSE,
          total |-> IF answer = "ok" THEN 1 ELSE 0,
          retrErr |-> IF answer = "error" THEN "scraper" ELSE "none"]
    ELSE [threw |-> FALSE, total |-> 0, retrErr |-> "none"]

\* lines 279-301: the items of the source.  parseRSSFeed returns the items
\* or throws (it logs and rethrows a network or parse error); scrapeArticle
\* returns the page, or null for a non-200 answer, an unreadable page and
\* for every network error, which it catches.  answer is what the network
\* gives: "ok", "null" (nothing readable) or "error".
Retrieve(sourceType, answer, n) ==
    IF IsRssType(sourceType)
    THEN IF answer = "error"
         THEN [threw |-> TRUE, total |-> 0, retrErr |-> "rss"]
         ELSE [threw |-> FALSE, total |-> n, retrErr |-> "none"]
    ELSE IF sourceType = "scraper"
    THEN [threw |-> FALSE,
          total |-> IF answer = "ok" THEN 1 ELSE 0,
          retrErr |-> IF answer = "error" THEN "scraper" ELSE "none"]
    ELSE [threw |-> FALSE, total |-> 0, retrErr |-> "none"]

\* lines 251-312: load the source, retrieve its items, record the success.
\* env: what storage and the network answer to each call.
BeginOutcome(job, srcs, env) ==
    IF ~env.load THEN Catch(job, srcs, ErrStorage, env.fail)
    ELSE IF ActiveSourceRows(srcs, job.data.sourceId) = {}
    THEN Catch(job, srcs, ErrSource, env.fail)
    ELSE LET t == srcs[job.data.sourceId].type
             r == Retrieve(t, env.answer, env.n)
             met == [job EXCEPT !.g.retrieved = TRUE, !.g.retrErr = r.retrErr]
         IN  IF r.threw THEN Catch(met, srcs, ErrFeed, env.fail)
             ELSE IF ~env.succ THEN Catch(met, srcs, ErrHealth, env.fail)
             ELSE [job |-> [met EXCEPT !.pc = "loop", !.srcType = t,
                                       !.total = r.total,
                                       !.g.allRejected = (r.total = 0)],
                   sources |-> RecordSuccess(srcs, job.data.sourceId)]

\* every answer of storage and the network
FetchEnvs ==
    [load : BOOLEAN, succ : BOOLEAN, fail : BOOLEAN,
     answer : {"ok", "null", "error"}, n : 0..MaxFeed]

\* the first part of the handler, storage and the network answering as one
\* of envs
F_BeginIn(j, envs) ==
    /\ IsRunning(j, "fetch", "begin")
    /\ \E env \in envs :
          LET out == BeginOutcome(jobs[j], sources, env)
          IN  /\ jobs' = [jobs EXCEPT ![j] = out.job]
              /\ sources' = out.sources
    /\ UNCHANGED <<probe, articles, manualRetries, runs>>

F_Begin(j) == F_BeginIn(j, FetchEnvs)

\* variant: the loop runs over every item
LoopDone_Unlimited(job) == job.idx >= job.total

\* line 319 and the for-of loop: stop once one article is queued or the
\* items are exhausted
LoopDone(job) == job.queued >= 1 \/ job.idx >= job.total

\* variant: one and a half times the words is enough
SignificantlyBetter_AtLeast(scraped, original) == 2 * scraped.words >= 3 * original.words

\* line 375: scrapedStats.wordCount > contentStats.wordCount * 1.5
SignificantlyBetter(scraped, original) == 2 * scraped.words > 3 * original.words

\* lines 366-401: the scraped content replaces the item's content
UseScraped(c, sourceType, scraped) ==
    /\ NeedsScraping(c.content, sourceType)
    /\ scraped.len > ScrapedMinLength
    /\ SignificantlyBetter(scraped, c.content)

FinalContent(c, sourceType, scraped) ==
    IF UseScraped(c, sourceType, scraped) THEN scraped ELSE c.content

\* lines 339-350, 384-387, 409-413: feed image, else the scraped content's
\* image when it replaced the content, else the final content's image
FinalImage(c, sourceType, scraped) ==
    LET afterScrape ==
            IF UseScraped(c, sourceType, scraped) /\ c.feedImage = NoImage
            THEN ExtractImageUrl(scraped)
            ELSE c.feedImage
        full == FinalContent(c, sourceType, scraped)
    IN  IF afterScrape = NoImage /\ full.len > 0
        THEN ExtractImageUrl(full)
        ELSE afterScrape

\* variant: the gates without the duplicate check
Verdict_NoDuplicateGate(c, sourceType, arts, dupOk, scraped) ==
    IF c.link = NoLink THEN "nolink"
    ELSE IF FinalImage(c, sourceType, scraped) = NoImage THEN "noimage"
    ELSE IF FinalContent(c, sourceType, scraped).len < MinContentLength THEN "short"
    ELSE "queue"

\* variant: the gates without the length floor
Verdict_NoLengthGate(c, sourceType, arts, dupOk, scraped) ==
    IF c.link = NoLink THEN "nolink"
    ELSE IF IsDuplicate(c.link, c.title, c.content, arts, dupOk) THEN "duplicate"
    ELSE IF FinalImage(c, sourceType, scraped) = NoImage THEN "noimage"
    ELSE "queue"

\* lines 321-430: the gates of one item, in the code's order
Verdict(c, sourceType, arts, dupOk, scraped) ==
    IF c.link = NoLink THEN "nolink"
    ELSE IF IsDuplicate(c.link, c.title, c.content, arts, dupOk) THEN "duplicate"
    ELSE IF FinalImage(c, sourceType, scraped) = NoImage THEN "noimage"
    ELSE IF FinalContent(c, sourceType, scraped).len < MinContentLength THEN "short"
    ELSE "queue"

\* variant: the payload carries the feed's image, found or not
ProcessData_FeedImage(job, c, scraped) ==
    [sourceId |-> job.data.sourceId, title |-> c.title, link |-> c.link,
     content |-> FinalContent(c, job.srcType, scraped),
     imageUrl |-> c.feedImage]

\* lines 433-442: the payload of the Process job
ProcessData(job, c, scraped) ==
    [sourceId |-> job.data.sourceId, title |-> c.title, link |-> c.link,
     content |-> FinalContent(c, job.srcType, scraped),
     imageUrl |-> FinalImage(c, job.srcType, scraped)]

\* skipped++; continue
Skip(job) ==
    [job EXCEPT !.skipped = @ + 1, !.idx = @ + 1,
                !.g.allRejected = (job.queued = 0 /\ job.skipped + 1 = job.total)]

\* the items of a page scraped for a scraper source carry the page's URL
\* as link and no feed image
ItemsOf(sourceType) ==
    IF sourceType = "scraper"
    THEN {c \in Candidates : c.link # NoLink /\ c.feedImage = NoImage}
    ELSE Candidates

\* one iteration of the loop over the items (lines 318-451): the item is
\* one of items, storage answers the duplicate lookups as one of dupOks, the
\* scrape gives one of scrapes, the enqueue and the failure update succeed
\* as one of oks
F_CandidateIn(j, items, dupOks, scrapes, oks) ==
    /\ IsRunning(j, "fetch", "loop")
    /\ ~LoopDone(jobs[j])
    /\ \E c \in items, dupOk \in dupOks,
          scraped \in scrapes, enqueueOk \in oks, fail \in oks :
          LET v == Verdict(c, jobs[j].srcType, articles, dupOk, scraped)
          IN  IF v # "queue"
              THEN /\ jobs' = [jobs EXCEPT ![j] = Skip(jobs[j])]
                   /\ sources' = sources
              ELSE IF enqueueOk
              THEN /\ HasFreeSlot(jobs, "process")
                   /\ jobs' = [Add(jobs, "process",
                                   ProcessJob(ProcessData(jobs[j], c, scraped),
                                              AttemptId(j, jobs[j])))
                                 EXCEPT ![j].queued = @ + 1, ![j].idx = @ + 1]
                   /\ sources' = sources
              ELSE /\ jobs' = [jobs EXCEPT ![j] =
                                 Catch(jobs[j], sources, ErrEnqueue, fail).job]
                   /\ sources' = Catch(jobs[j], sources, ErrEnqueue, fail).sources
    /\ UNCHANGED <<probe, articles, manualRetries, runs>>

F_Candidate(j) ==
    F_CandidateIn(j, ItemsOf(jobs[j].srcType), BOOLEAN, ScrapeResults, BOOLEAN)

\* variant: an attempt that queued nothing is reported as an error
ReturnOutcome_FailOnZero(job) ==
    IF job.queued = 0 THEN MoveToFailed(job, "No articles queued")
    ELSE MoveToCompleted(job)

\* lines 453-474: the handler returns its counts
ReturnOutcome(job) == MoveToCompleted(job)

F_Return(j) ==
    /\ IsRunning(j, "fetch", "loop")
    /\ LoopDone(jobs[j])
    /\ jobs' = [jobs EXCEPT ![j] = ReturnOutcome(jobs[j])]
    /\ UNCHANGED <<probe, sources, articles, manualRetries, runs>>

-----------------------------------------------------------------------------
(* Process worker (redis.ts, processWorker).  Its catch block logs and      *)
(* rethrows, so a throwing step ends the attempt at once.                   *)

\* variant: the length of the plain text is not looked at again
Precondition_NoLengthCheck(data) ==
    IF data.imageUrl = NoImage THEN ErrNoImage ELSE NoError

\* lines 513-533: the preconditions on the cleaned content and the image
Precondition(data) ==
    IF PlainTextLength(CleanHTML(data.content)) < MinContentLength THEN ErrTooShort
    ELSE IF data.imageUrl = NoImage THEN ErrNoImage
    ELSE NoError

\* the external AI calls of the enrichment: summarization and
\* classification (Hugging Face), web research of the rewrite
AiServices == {"summarize", "rewrite", "classify"}

\* variant: an AI call that fails is not recovered from
Enrich_NoFallback(data, failing) ==
    [threw |-> failing # {},
     summary |-> "ai", content_rewritten |-> "researched", category_id |-> "classified"]

\* lines 570-618: summarizeText falls back to the extractive summary,
\* rewriteArticleWithHTML to the basic article, and classifyArticle answers
\* null, after which the category comes from assignCategoryFromKeywords;
\* failing: the AI services that fail or time out during this run
Enrich(data, failing) ==
    [threw |-> FALSE,
     summary |-> IF "summarize" \in failing THEN "extractive" ELSE "ai",
     content_rewritten |-> IF "rewrite" \in failing THEN "basic" ELSE "researched",
     category_id |-> IF "classify" \in failing THEN "keywords" ELSE "classified"]

\* variant: the row waits for the publish stage
NewArticle_Pending(job, id, e) ==
    [id |-> id, title |-> job.data.title, slug |-> Slug(job.data.title),
     summary |-> e.summary,
     content_original |-> CleanHTML(job.data.content),
     content_rewritten |-> e.content_rewritten,
     source_url |-> job.data.link, source_id |-> job.data.sourceId,
     category_id |-> e.category_id,
     featured_image |-> job.data.imageUrl,
     status |-> "pending", published_at |-> NULL]

\* lines 620-664: the row of the INSERT
NewArticle(job, id, e) ==
    [id |-> id, title |-> job.data.title, slug |-> Slug(job.data.title),
     summary |-> e.summary,
     content_original |-> CleanHTML(job.data.content),
     content_rewritten |-> e.content_rewritten,
     source_url |-> job.data.link, source_id |-> job.data.sourceId,
     category_id |-> e.category_id,
     featured_image |-> job.data.imageUrl,
     status |-> "published", published_at |-> "NOW"]

\* variant: the slug column carries no unique constraint
SlugTaken_NoConstraint(arts, slug) == FALSE

\* articles.slug is UNIQUE (schema, part_007 line 67)
SlugTaken(arts, slug) == \E a \in arts : a.slug = slug

\* variant: the row is written before the statement is known to succeed
ProcessOutcome_PartialWrite(job, id, srcs, arts, checkOk, insertOk, failing) ==
    IF ~checkOk THEN [job |-> MoveToFailed(job, ErrStorage), articles |-> arts]
    ELSE IF SourceRows(srcs, job.data.sourceId) = {}
    THEN [job |-> MoveToFailed(job, ErrInvalidSource), articles |-> arts]
    ELSE IF Precondition(job.data) # NoError
    THEN [job |-> MoveToFailed(job, Precondition(job.data)), articles |-> arts]
    ELSE IF Enrich(job.data, failing).threw
    THEN [job |-> MoveToFailed(job, ErrEnrich), articles |-> arts]
    ELSE IF ~insertOk \/ SlugTaken(arts, Slug(job.data.title))
    THEN [job |-> MoveToFailed(job, ErrStorage),
          articles |-> arts \cup {NewArticle(job, id, Enrich(job.data, failing))}]
    ELSE [job |-> MoveToCompleted(job),
          articles |-> arts \cup {NewArticle(job, id, Enrich(job.data, failing))}]

\* lines 505-706, one run of the handler: check the source row, clean and
\* validate, enrich (an enrichment call that threw would end the run in the
\* catch block), then one INSERT statement and return
ProcessOutcome(job, id, srcs, arts, checkOk, insertOk, failing) ==
    IF ~checkOk THEN [job |-> MoveToFailed(job, ErrStorage), articles |-> arts]
    ELSE IF SourceRows(srcs, job.data.sourceId) = {}
    THEN [job |-> MoveToFailed(job, ErrInvalidSource), articles |-> arts]
    ELSE IF Precondition(job.data) # NoError
    THEN [job |-> MoveToFailed(job, Precondition(job.data)), articles |-> arts]
    ELSE IF Enrich(job.data, failing).threw
    THEN [job |-> MoveToFailed(job, ErrEnrich), articles |-> arts]
    ELSE IF ~insertOk
    THEN [job |-> MoveToFailed(job, ErrStorage), articles |-> arts]
    ELSE IF SlugTaken(arts, Slug(job.data.title))
    THEN [job |-> MoveToFailed(job, ErrUnique), articles |-> arts]
    ELSE [job |-> MoveToCompleted(job),
          articles |-> arts \cup {NewArticle(job, id, Enrich(job.data, failing))}]

\* one run of the handler: storage answers as one of oks, the AI services
\* of one of failings fail
P_RunIn(j, oks, failings) ==
    /\ IsRunning(j, "process", "begin")
    /\ \E checkOk \in oks, insertOk \in oks, failing \in failings :
          LET out == ProcessOutcome(jobs[j], AttemptId(j, jobs[j]), sources, articles,
                                    checkOk, insertOk, failing)
          IN  /\ jobs' = [jobs EXCEPT ![j] = out.job]
              /\ articles' = out.articles
    /\ UNCHANGED <<probe, sources, manualRetries, runs>>

P_Run(j) == P_RunIn(j, BOOLEAN, SUBSET AiServices)

-----------------------------------------------------------------------------
(* Publish worker (redis.ts, publishWorker) *)

\* UPDATE articles SET status = 'published',
\*   published_at = COALESCE(published_at, NOW())
\*   WHERE id = $1 AND status = 'pending'
PublishUpdate(arts, articleId) ==
    {IF a.id = articleId /\ a.status = "pending"
     THEN [a EXCEPT !.status = "published",
                    !.published_at = IF @ = NULL THEN "NOW" ELSE @]
     ELSE a : a \in arts}

PublishOutcome(job, arts, dbOk) ==
    IF dbOk
    THEN [job |-> MoveToCompleted(job), articles |-> PublishUpdate(arts, job.data.articleId)]
    ELSE [job |-> MoveToFailed(job, ErrStorage), articles |-> arts]

Pub_Run(j) ==
    /\ IsRunning(j, "publish", "begin")
    /\ \E dbOk \in BOOLEAN :
          /\ jobs' = [jobs EXCEPT ![j] = PublishOutcome(jobs[j], articles, dbOk).job]
          /\ articles' = PublishOutcome(jobs[j], articles, dbOk).articles
    /\ UNCHANGED <<probe, sources, manualRetries, runs>>

-----------------------------------------------------------------------------

ArticleIds == {a.id : a \in articles} \cup {NoProducer}

Next ==
    \/ \E s \in SourceIds : AddFetchJob(s)
    \/ ProcessTest
    \/ \E a \in ArticleIds : AddPublishJob(a)
    \/ \E j \in JobIds : StartJob(j)
    \/ \E j \in JobIds : PromoteDelayed(j)
    \/ \E j \in JobIds : ManualRetry(j)
    \/ \E j \in JobIds : F_Begin(j)
    \/ \E j \in JobIds : F_Candidate(j)
    \/ \E j \in JobIds : F_Return(j)
    \/ \E j \in JobIds : P_Run(j)
    \/ \E j \in JobIds : Pub_Run(j)

Spec == Init /\ [][Next]_vars

-----------------------------------------------------------------------------
(* The scheduler (scheduler.ts, scheduleFetchJobs): one run selects at most *)
(* five active sources in random order and enqueues a Fetch job for each.   *)

SchedFetchJobs == 5
SchedRuns == 1

\* LIMIT 5
SchedLimit == 5

SchedSourceIds == {"n1", "n2", "n3", "n4", "n5", "n6"}

\* the registries the run may meet: any source active or not
SchedRegistries ==
    [SchedSourceIds -> {SourceRow("rss-full", TRUE), SourceRow("rss-full", FALSE)}]

Min(a, b) == IF a <= b THEN a ELSE b

\* SELECT id, name FROM news_sources WHERE is_active = true
\*   ORDER BY RANDOM() LIMIT 5: the possible answers
Selections(srcs) ==
    LET act == {r \in DOMAIN srcs : srcs[r].is_active}
        n == Min(SchedLimit, Cardinality(act))
    IN  {sel \in [1..n -> act] : \A i, k \in 1..n : i # k => sel[i] # sel[k]}

\* variant: the first add that fails ends the loop
RECURSIVE EnqueueAll_StopOnFailure(_, _, _, _)
EnqueueAll_StopOnFailure(js, selection, failing, i) ==
    IF i > Len(selection) \/ selection[i] \in failing THEN [jobs |-> js, queued |-> 0]
    ELSE LET rest == EnqueueAll_StopOnFailure(Add(js, "fetch", FetchJob(selection[i])),
                                              selection, failing, i + 1)
         IN  [rest EXCEPT !.queued = @ + 1]

\* lines 28-45: for each selected source, try addFetchJob and count it; an
\* add that throws is logged and the loop goes on.  failing: the sources
\* whose add throws
RECURSIVE EnqueueAll(_, _, _, _)
EnqueueAll(js, selection, failing, i) ==
    IF i > Len(selection) THEN [jobs |-> js, queued |-> 0]
    ELSE IF selection[i] \in failing
    THEN EnqueueAll(js, selection, failing, i + 1)
    ELSE LET rest == EnqueueAll(Add(js, "fetch", FetchJob(selection[i])),
                                selection, failing, i + 1)
         IN  [rest EXCEPT !.queued = @ + 1]

\* lines 5-51, one run: a SELECT that throws is caught by the outer catch,
\* an empty answer returns at once, else the loop; the function never throws
ScheduleOutcome(js, selectOk, selection, failing) ==
    IF ~selectOk \/ Len(selection) = 0
    THEN [jobs |-> js, queued |-> 0, threw |-> FALSE]
    ELSE LET r == EnqueueAll(js, selection, failing, 1)
         IN  [jobs |-> r.jobs, queued |-> r.queued, threw |-> FALSE]

ScheduleFetchJobs ==
    /\ runs > 0
    /\ Cardinality({j \in SlotsOf("fetch") : jobs[j].state = "absent"}) >= SchedLimit
    /\ \E selectOk \in BOOLEAN, selection \in Selections(sources) :
       \E failing \in SUBSET {selection[i] : i \in 1..Len(selection)} :
          LET out == ScheduleOutcome(jobs, selectOk, selection, failing)
          IN  /\ jobs' = out.jobs
              /\ probe' = [op |-> "schedule", selectOk |-> selectOk,
                           selected |-> selection, failed |-> failing,
                           queued |-> out.queued, threw |-> out.threw]
    /\ runs' = runs - 1
    /\ UNCHANGED <<sources, articles, manualRetries>>

SchedInit ==
    /\ sources \in SchedRegistries
    /\ articles = {}
    /\ jobs = [j \in {"fetch"} \X (1..SchedFetchJobs) |-> AbsentJob]
    /\ manualRetries = 0
    /\ runs = SchedRuns
    /\ probe = NoProbe

SchedNext == ScheduleFetchJobs

SchedSpec == SchedInit /\ [][SchedNext]_vars

-----------------------------------------------------------------------------
(* The producers of Fetch jobs: the scheduler, the two test routes and the  *)
(* refresh of a source by an administrator.                                 *)

\* the sources of a selection, in its order
Prefixes(selection) == {SubSeq(selection, 1, k) : k \in 0..Len(selection)}

\* POST /fetch-all (routes/test.ts 22-40): addFetchJob for every active
\* source in the order of the answer; an add that throws ends the loop in
\* the catch block, the jobs added before it stay.  added: the sources whose
\* add returned
FetchAll ==
    /\ Cardinality({j \in SlotsOf("fetch") : jobs[j].state = "absent"})
          >= Cardinality(DOMAIN sources)
    /\ \E selectOk \in BOOLEAN, selection \in Selections(sources) :
       \E added \in Prefixes(selection) :
          jobs' = IF selectOk
                  THEN EnqueueAll(jobs, added, {}, 1).jobs
                  ELSE jobs
    /\ UNCHANGED <<probe, sources, articles, manualRetries, runs>>

\* POST /sources/:id/refresh (handlers/sources.ts 219-244): 404 for an id
\* without a row, else one Fetch job added with the handler's own options;
\* a query or an add that throws answers 500 and adds nothing
RefreshSource(id) ==
    /\ HasFreeSlot(jobs, "fetch")
    /\ \E queryOk \in BOOLEAN, addOk \in BOOLEAN :
          jobs' = IF queryOk /\ SourceRows(sources, id) # {} /\ addOk
                  THEN Add(jobs, "fetch", RefreshJob(id))
                  ELSE jobs
    /\ UNCHANGED <<probe, sources, articles, manualRetries, runs>>

\* the ids the routes are called with: one without a row, one with a row
EnqueueSourceIds == {"s0", "s1"}

EnqueueInit ==
    /\ sources = InitSources
    /\ articles = {}
    /\ jobs = [j \in {"fetch"} \X (1..SchedFetchJobs) |-> AbsentJob]
    /\ manualRetries = 0
    /\ runs = SchedRuns
    /\ probe = NoProbe

EnqueueNext ==
    \/ ScheduleFetchJobs
    \/ FetchAll
    \/ \E id \in EnqueueSourceIds : AddFetchJob(id)
    \/ \E id \in EnqueueSourceIds : RefreshSource(id)

EnqueueSpec == EnqueueInit /\ [][EnqueueNext]_vars

-----------------------------------------------------------------------------
(* Concurrent Fetch jobs: two Fetch jobs and the Process jobs they enqueue, *)
(* run by the same workers in any interleaving.                             *)

RaceFetchJobs == 2
RaceProcessJobs == 2
RaceRuns == 5

\* the items of the two feeds: the same link under two titles, and another
\* link under a title that derives the slug of the first
RaceItems ==
    { Candidate(L1, T1, cFull, "feed.jpg"),
      Candidate(L1, T3, cFull, "feed.jpg"),
      Candidate(L2, T2, cFull, "feed.jpg") }

\* storage and the network answer every call; the feed holds an item
RaceEnvs == {env \in FetchEnvs : env.load /\ env.succ /\ env.fail /\ env.answer = "ok" /\ env.n >= 1}

RaceJobIds ==
    ({"fetch"} \X (1..RaceFetchJobs)) \cup ({"process"} \X (1..RaceProcessJobs))

\* the sources whose feeds are fetched concurrently
RaceSourceIds == {"s1", "s2"}

RaceInit ==
    /\ sources = InitSources
    /\ articles = {}
    /\ jobs = [j \in RaceJobIds |-> AbsentJob]
    /\ manualRetries = 0
    /\ runs = RaceRuns
    /\ probe = NoProbe

RaceNext ==
    \/ \E s \in RaceSourceIds : AddFetchJob(s)
    \/ \E j \in RaceJobIds : StartJob(j)
    \/ \E j \in RaceJobIds : PromoteDelayed(j)
    \/ \E j \in RaceJobIds : F_BeginIn(j, RaceEnvs)
    \/ \E j \in RaceJobIds : F_CandidateIn(j, RaceItems, {TRUE}, {NoScrape}, {TRUE})
    \/ \E j \in RaceJobIds : F_Return(j)
    \/ \E j \in RaceJobIds : P_RunIn(j, BOOLEAN, {{}})

RaceSpec == RaceInit /\ [][RaceNext]_vars

-----------------------------------------------------------------------------
(* The secondary scrape of one item on its own (redis.ts 352-407): the      *)
(* analyzer's recommendation, the scrape and the choice of the content.     *)

\* feed contents around the analyzer's thresholds
cBare == Content("bare", 1020, 1000, 250, 990, FALSE, NoImage, FALSE)
cNear == Content("near", 1020, 999, 250, 990, FALSE, NoImage, FALSE)
cMore == Content("more", 1300, 1200, 300, 1150, TRUE, NoImage, FALSE)

GateContents == {EmptyContent, cSnip, cEdge, cFull, cBare, cNear, cMore}

\* scraped contents around the replacement thresholds: against the 80 words
\* of cSnip, 119, 120 (sThin) and 121 words; 500 characters with many words
sLess == Content("less", 900, 880, 119, 870, FALSE, "og.jpg", FALSE)
sOver == Content("over", 900, 880, 121, 870, FALSE, "og.jpg", FALSE)
sCut  == Content("cut", 500, 495, 200, 490, FALSE, "og.jpg", FALSE)

GateScrapes == {NoScrape, sLess, sThin, sOver, sCut, sBig}

GateTypes == {"rss-full", "rss-scrape", "rss", "scraper"}

\* lines 352-407 for one item: needsScraping decides whether scrapeArticle is
\* called; its result (null when it failed) replaces the content or not; a
\* throw of the scrape is caught inside the loop
ScrapeGate(c, sourceType, scraped) ==
    [attempted |-> NeedsScraping(c.content, sourceType),
     replaced |-> UseScraped(c, sourceType, scraped),
     final |-> FinalContent(c, sourceType, scraped),
     threw |-> FALSE]

ApplyScrapeGate ==
    /\ probe = NoProbe
    /\ \E content \in GateContents, sourceType \in GateTypes, scraped \in GateScrapes :
          LET out == ScrapeGate(Candidate(L1, T1, content, NoImage), sourceType, scraped)
          IN  probe' = [op |-> "scrapeGate", content |-> content,
                        sourceType |-> sourceType, scraped |-> scraped,
                        attempted |-> out.attempted, replaced |-> out.replaced,
                        final |-> out.final, threw |-> out.threw]
    /\ UNCHANGED <<sources, articles, jobs, manualRetries, runs>>

GateInit ==
    /\ sources = InitSources
    /\ articles = {}
    /\ jobs = [j \in JobIds |-> AbsentJob]
    /\ manualRetries = 0
    /\ runs = 0
    /\ probe = NoProbe

GateNext == ApplyScrapeGate

GateSpec == GateInit /\ [][GateNext]_vars

-----------------------------------------------------------------------------
(* The content analyzer on its own (part_001, isFullContent).  A text is    *)
(* what the function reads of the content: whether it is empty, which       *)
(* snippet phrase it holds, where it holds three dots, and the word and     *)
(* character counts of its tag-stripped text.                               *)

Text(empty, phrase, dots, words, chars) ==
    [empty |-> empty, phrase |-> phrase, dots |-> dots, words |-> words, chars |-> chars]

\* /read more|continue reading|full story|view more/i.test(content)
HasReadMore(t) ==
    t.phrase \in {"read more", "continue reading", "full story", "view more"}

\* /\.\.\.|<ellipsis>$/.test(plainText.trim()): the end anchor binds to the
\* second alternative only, so three dots match wherever they stand
EndsAbruptly(t) == t.dots \in {"middle", "end"}

SnippetMarker(t) == HasReadMore(t) \/ EndsAbruptly(t)

\* the content record of a text
ContentOfText(t) ==
    Content("text", IF t.empty THEN 0 ELSE t.chars + 20, t.chars, t.words, t.chars,
            SnippetMarker(t), NoImage, FALSE)

AnalyzerTexts ==
    {Text(TRUE, "none", "none", 0, 0)} \cup
    {Text(FALSE, phrase, dots, words, chars) :
        phrase \in {"none", "read more", "continue reading", "full story", "view more"},
        dots \in {"none", "middle", "end"},
        words \in {249, 250, 300}, chars \in {999, 1000, 1500}}

\* isFullContent(content, title), called once
AnalyzeContent ==
    /\ probe = NoProbe
    /\ \E t \in AnalyzerTexts :
          probe' = [op |-> "isFullContent", text |-> t,
                    result |-> IsFullContent(ContentOfText(t))]
    /\ UNCHANGED <<sources, articles, jobs, manualRetries, runs>>

AnalyzerInit ==
    /\ sources = InitSources
    /\ articles = {}
    /\ jobs = [j \in JobIds |-> AbsentJob]
    /\ manualRetries = 0
    /\ runs = 0
    /\ probe = NoProbe

AnalyzerNext == AnalyzeContent

AnalyzerSpec == AnalyzerInit /\ [][AnalyzerNext]_vars

-----------------------------------------------------------------------------
(* The scoring functions of the Process worker on their own (redis.ts,      *)
(* shouldBeTrending and shouldBeFeatured).                                  *)

\* 6 * 60 * 60 * 1000
RecentWindowMs == 21600000

FeaturedMinWords == 500
FeaturedMinParagraphs == 3
TitleMinLength == 30
TitleMaxLength == 100
FeaturedMinScore == 4

\* pubDate: absent, a string new Date() cannot read (getTime() is NaN), or a
\* date age milliseconds before now (negative: in the future)
NoDate == [kind |-> "none", age |-> 0]
InvalidDate == [kind |-> "invalid", age |-> 0]
DateAged(age) == [kind |-> "date", age |-> age]

PubDates ==
    {NoDate, InvalidDate} \cup
    {DateAged(age) : age \in {0 - 3600000, 3600000, RecentWindowMs - 1, RecentWindowMs,
                              RecentWindowMs + 1, 36000000}}

\* lines 110-112: every comparison with NaN is false
IsRecent(pubDate) ==
    IF pubDate.kind = "none" THEN TRUE
    ELSE IF pubDate.kind = "invalid" THEN FALSE
    ELSE pubDate.age < RecentWindowMs

\* variant: the publish date is not looked at
ShouldBeTrending_AnyAge(inTitle, inContent, inKeywords, pubDate) ==
    Cardinality({i \in {<<1, inTitle>>, <<2, inContent>>, <<3, inKeywords>>} : i[2]}) >= 1

\* lines 103-125.  inTitle, inContent, inKeywords: the three indicators, a
\* breaking-news word in the title, in the first 200 characters of the
\* content, among the keywords
ShouldBeTrending(inTitle, inContent, inKeywords, pubDate) ==
    LET trendingIndicators == {<<1, inTitle>>, <<2, inContent>>, <<3, inKeywords>>}
        hasTrendingSignals == Cardinality({i \in trendingIndicators : i[2]}) >= 1
    IN  IsRecent(pubDate) /\ hasTrendingSignals

\* variant: every check must hold
ShouldBeFeatured_AllFive(titleLen, clickbait, stats, imageUrl) ==
    /\ imageUrl # NoImage
    /\ stats.wordCount >= FeaturedMinWords
    /\ stats.paragraphs >= FeaturedMinParagraphs
    /\ titleLen >= TitleMinLength /\ titleLen <= TitleMaxLength
    /\ ~clickbait

\* lines 131-151.  titleLen: title.length; clickbait: the title matches
\* /\?|!|you won't believe|shocking|incredible/i
ShouldBeFeatured(titleLen, clickbait, stats, imageUrl) ==
    LET qualityChecks ==
            { <<"hasImage", imageUrl # NoImage>>,
              <<"hasGoodLength", stats.wordCount >= FeaturedMinWords>>,
              <<"hasStructure", stats.paragraphs >= FeaturedMinParagraphs>>,
              <<"hasGoodTitle", titleLen >= TitleMinLength /\ titleLen <= TitleMaxLength>>,
              <<"notClickbait", ~clickbait>> }
        qualityScore == Cardinality({q \in qualityChecks : q[2]})
    IN  qualityScore >= FeaturedMinScore

ScoreTrending ==
    /\ probe = NoProbe
    /\ \E inTitle \in BOOLEAN, inContent \in BOOLEAN, inKeywords \in BOOLEAN,
          pubDate \in PubDates :
          probe' = [op |-> "shouldBeTrending", inTitle |-> inTitle,
                    inContent |-> inContent, inKeywords |-> inKeywords,
                    pubDate |-> pubDate,
                    result |-> ShouldBeTrending(inTitle, inContent, inKeywords, pubDate)]
    /\ UNCHANGED <<sources, articles, jobs, manualRetries, runs>>

ScoreFeatured ==
    /\ probe = NoProbe
    /\ \E titleLen \in {29, 30, 100, 101}, clickbait \in BOOLEAN,
          wordCount \in {499, 500}, paragraphs \in {2, 3},
          imageUrl \in {NoImage, "feed.jpg"} :
          probe' = [op |-> "shouldBeFeatured", titleLen |-> titleLen,
                    clickbait |-> clickbait, wordCount |-> wordCount,
                    paragraphs |-> paragraphs, imageUrl |-> imageUrl,
                    result |-> ShouldBeFeatured(titleLen, clickbait,
                                  [wordCount |-> wordCount, paragraphs |-> paragraphs],
                                  imageUrl)]
    /\ UNCHANGED <<sources, articles, jobs, manualRetries, runs>>

ScoreInit ==
    /\ sources = InitSources
    /\ articles = {}
    /\ jobs = [j \in JobIds |-> AbsentJob]
    /\ manualRetries = 0
    /\ runs = 0
    /\ probe = NoProbe

ScoreNext == ScoreTrending \/ ScoreFeatured

ScoreSpec == ScoreInit /\ [][ScoreNext]_vars

-----------------------------------------------------------------------------
(* The slug derivation on its own (redis.ts 620-626): the slug of every     *)
(* short title over a small alphabet, and of titles around 100 characters.  *)

MaxTitleLen == 3

TitleChars == {"A", "b", " ", "-", "!"}

ShortTitles == UNION {[1..n -> TitleChars] : n \in 0..MaxTitleLen}

\* n times the letter a
Letters(n) == [i \in 1..n |-> "a"]

\* titles whose slug meets the length cap: 98 to 100 letters, then a short
\* title of at most two characters
LongTitles ==
    {Letters(n) \o t : n \in (SlugMaxLength - 2)..SlugMaxLength,
                       t \in {u \in ShortTitles : Len(u) <= 2}}

\* const slug = title.toLowerCase()...substring(0, 100), computed once
DeriveSlug ==
    /\ probe = NoProbe
    /\ \E title \in ShortTitles \cup LongTitles :
          probe' = [op |-> "slug", title |-> title, slug |-> Slug(title)]
    /\ UNCHANGED <<sources, articles, jobs, manualRetries, runs>>

SlugInit ==
    /\ sources = InitSources
    /\ articles = {}
    /\ jobs = [j \in JobIds |-> AbsentJob]
    /\ manualRetries = 0
    /\ runs = 0
    /\ probe = NoProbe

SlugNext == DeriveSlug

SlugSpec == SlugInit /\ [][SlugNext]_vars

-----------------------------------------------------------------------------
(* The summarizer on its own (part_002).  A text is read as its sentences   *)
(* (the matches of /[^.!?]+[.!?]+/g, given by their trimmed lengths in the  *)
(* order of their scores) and an unpunctuated tail; whitespace is single,   *)
(* as prepareTextForSummarization leaves it.                                *)

MaxSentences == 11

DefaultMinLength == 200
MaxSummaryCap == 500
MaxSummarySlack == 100
MaxSelected == 10

SentenceLengths == {10, 400}

TailLengths == {0, 50}

RECURSIVE SumTo(_, _)
SumTo(lens, k) == IF k = 0 THEN 0 ELSE lens[k] + SumTo(lens, k - 1)

\* text.length: the sentences, one space after each but the last, the tail
TextLength(lens, tail) ==
    SumTo(lens, Len(lens))
    + (IF Len(lens) > 0 THEN Len(lens) - 1 ELSE 0)
    + (IF tail > 0 /\ Len(lens) > 0 THEN tail + 1 ELSE tail)

\* Math.max(Math.floor(text.length * 0.25), minLength || 200)
TargetLength(L) == IF L \div 4 >= DefaultMinLength THEN L \div 4 ELSE DefaultMinLength

\* Math.min(targetLength + 100, 500)
MaxLength(L) ==
    IF TargetLength(L) + MaxSummarySlack <= MaxSummaryCap
    THEN TargetLength(L) + MaxSummarySlack
    ELSE MaxSummaryCap

\* part_002 206-216: the loop over the sentences in score order; k sentences
\* are selected so far
RECURSIVE Selected(_, _, _)
Selected(lens, target, k) ==
    IF k >= Len(lens) THEN k
    ELSE IF SumTo(lens, k) >= target THEN k
    ELSE IF k + 1 >= MaxSelected THEN k + 1
    ELSE Selected(lens, target, k + 1)

\* generateEnhancedSummary(text, targetLength) then cleanSummary: the length
\* of the result.  Without any sentence match the whole text is the one
\* sentence and cleanSummary appends a full stop; else the selected
\* sentences are joined by single spaces and end in punctuation already.
EnhancedSummaryLength(lens, tail, target) ==
    IF Len(lens) = 0 THEN (IF tail > 0 THEN tail + 1 ELSE 1)
    ELSE LET k == Selected(lens, target, 0)
         IN  SumTo(lens, k) + (k - 1)

Texts == UNION {[1..n -> SentenceLengths] : n \in 0..MaxSentences}

\* the fallback of summarizeText(text) for one text
SummarizeFallback ==
    /\ probe = NoProbe
    /\ \E lens \in Texts, tail \in TailLengths :
          LET L == TextLength(lens, tail)
          IN  probe' = [op |-> "generateEnhancedSummary", sentences |-> Len(lens),
                        L |-> L, target |-> TargetLength(L),
                        selected |-> IF Len(lens) = 0 THEN 1
                                     ELSE Selected(lens, TargetLength(L), 0),
                        length |-> EnhancedSummaryLength(lens, tail, TargetLength(L))]
    /\ UNCHANGED <<sources, articles, jobs, manualRetries, runs>>

InputLengths == {0, 100, 500, 799, 800, 1200, 1600, 1999, 2000, 2003, 2004, 4000}

\* the length bounds summarizeText(text) hands to generateAISummary
SummaryBounds ==
    /\ probe = NoProbe
    /\ \E L \in InputLengths :
          probe' = [op |-> "generateAISummary", L |-> L,
                    minLength |-> TargetLength(L), maxLength |-> MaxLength(L)]
    /\ UNCHANGED <<sources, articles, jobs, manualRetries, runs>>

SummaryInit ==
    /\ sources = InitSources
    /\ articles = {}
    /\ jobs = [j \in JobIds |-> AbsentJob]
    /\ manualRetries = 0
    /\ runs = 0
    /\ probe = NoProbe

SummaryNext == SummarizeFallback \/ SummaryBounds

SummarySpec == SummaryInit /\ [][SummaryNext]_vars

-----------------------------------------------------------------------------
(* The deduplicator on its own: isDuplicate called against a store that     *)
(* holds any of three rows the Process stage writes.                        *)

\* the row processWorker inserts for a payload of an existing source
StoredRow(n, link, title, content) ==
    LET data == [sourceId |-> "s1", title |-> title, link |-> link,
                 content |-> content, imageUrl |-> "feed.jpg"]
    IN  NewArticle([data |-> data], <<"process", n, 1>>, Enrich(data, {}))

DedupRows ==
    { StoredRow(1, L1, T1, cFull),
      StoredRow(2, L1q, T2, sBig),
      StoredRow(3, L2, T3, cEdge) }

OtherTitle == <<"Z">>

OtherContent == Content("other", 1500, 1400, 300, 1300, FALSE, NoImage, FALSE)

DedupUrls == {L1, L1q, L2, Link("u3", TRUE, FALSE)}

DedupTitles == {T1, ToLowerCase(T1), T2, OtherTitle}

DedupContents == {cFull, cEdge, sBig, OtherContent}

\* isDuplicate(sourceUrl, title, content), called once
CheckDuplicate ==
    /\ probe = NoProbe
    /\ \E url \in DedupUrls, title \in DedupTitles, content \in DedupContents,
          dbOk \in BOOLEAN :
          probe' = [op |-> "isDuplicate", url |-> url, title |-> title,
                    content |-> content, dbOk |-> dbOk,
                    result |-> IsDuplicate(url, title, content, articles, dbOk)]
    /\ UNCHANGED <<sources, articles, jobs, manualRetries, runs>>

DedupInit ==
    /\ sources = InitSources
    /\ articles \in SUBSET DedupRows
    /\ jobs = [j \in JobIds |-> AbsentJob]
    /\ manualRetries = 0
    /\ runs = 0
    /\ probe = NoProbe

DedupNext == CheckDuplicate

DedupSpec == DedupInit /\ [][DedupNext]_vars

-----------------------------------------------------------------------------
(* A feed fetched again while the lookups of the deduplicator fail: the     *)
(* item of the feed is already stored, every query of isDuplicate throws    *)
(* (deduplicator.ts 53-56), the rest of the storage answers.                *)

\* the article stored by an earlier run of the pipeline
OutageRow == StoredRow(0, L1, T1, cFull)

\* the feed still carries the stored item
OutageItems == { Candidate(L1, T1, cFull, "feed.jpg") }

OutageInit ==
    /\ sources = InitSources
    /\ articles = {OutageRow}
    /\ jobs = [j \in JobIds |-> AbsentJob]
    /\ manualRetries = 0
    /\ runs = MaxRuns
    /\ probe = NoProbe

OutageNext ==
    \/ AddFetchJob("s1")
    \/ \E j \in JobIds : StartJob(j)
    \/ \E j \in JobIds : PromoteDelayed(j)
    \/ \E j \in JobIds : F_BeginIn(j, RaceEnvs)
    \/ \E j \in JobIds : F_CandidateIn(j, OutageItems, {FALSE}, {NoScrape}, BOOLEAN)
    \/ \E j \in JobIds : F_Return(j)
    \/ \E j \in JobIds : P_RunIn(j, BOOLEAN, {{}})

OutageSpec == OutageInit /\ [][OutageNext]_vars

-----------------------------------------------------------------------------
(* Properties of the pipeline *)

FetchSlots == SlotsOf("fetch")

ProcessSlots == SlotsOf("process")

\* the Process jobs one attempt of a Fetch job has enqueued
ProducedBy(attempt) ==
    {p \in ProcessSlots : jobs[p].state # "absent" /\ jobs[p].by = attempt}

\* where an attempt whose handler threw leaves the job
Thrown == {"delayed", "waiting", "failed"}

\* job j takes a step of its handler
HandlerStep(j) == jobs[j].state = "active" /\ jobs'[j] # jobs[j]

\* C1: one execution of a Fetch job enqueues at most one Process job,
\* whatever the number of candidates and whatever gates they pass.
C1_AtMostOneProcessJob ==
    \A j \in FetchSlots : \A k \in 1..(FetchAttempts + MaxManualRetries) :
        Cardinality(ProducedBy(<<j[1], j[2], k>>)) <= 1

\* a two-item feed whose first item passed every gate
C1_Witness ==
    \E j \in FetchSlots :
        /\ jobs[j].state = "completed"
        /\ jobs[j].total = 2 /\ jobs[j].queued = 1 /\ jobs[j].skipped = 0
        /\ Cardinality(ProducedBy(AttemptId(j, jobs[j]))) = 1

\* C2: every Process job the Fetch stage enqueued carries a non-empty image
\* URL and final content of at least 500 characters, so a candidate with no
\* image or with shorter final content was skipped, not queued.
C2_QueuedHasImageAndContent ==
    \A p \in ProcessSlots :
        (jobs[p].state # "absent" /\ jobs[p].by # NoProducer)
            => /\ jobs[p].data.imageUrl # NoImage
               /\ jobs[p].data.content.len >= 500

\* a queued item right at the floor, next to a skipped one
C2_Witness ==
    \E p \in ProcessSlots : \E j \in FetchSlots :
        /\ jobs[p].state # "absent"
        /\ jobs[p].by = AttemptId(j, jobs[j])
        /\ jobs[p].data.content.len = 500
        /\ jobs[j].skipped = 1

C3_State ==
    \A j \in FetchSlots :
        jobs[j].g.allRejected
            => /\ jobs[j].state \in {"active", "completed"}
               /\ ProducedBy(AttemptId(j, jobs[j])) = {}

C3_Step ==
    \A j \in FetchSlots :
        (jobs[j].g.allRejected /\ jobs[j].state = "completed") => jobs'[j] = jobs[j]

\* C3: when retrieval succeeded and every candidate was rejected, the Fetch
\* job completes with zero Process jobs queued and is never run again.
C3_RejectionIsNotFailure == []C3_State /\ [][C3_Step]_vars

\* a two-item feed, both items rejected, the job completed
C3_Witness ==
    \E j \in FetchSlots :
        /\ jobs[j].state = "completed"
        /\ jobs[j].g.allRejected
        /\ jobs[j].total = 2 /\ jobs[j].skipped = 2 /\ jobs[j].queued = 0

\* the failure of `message` is on the row of the job's source
FailureRecorded(j, message) ==
    LET id == jobs[j].data.sourceId
    IN  /\ sources'[id].error_count = sources[id].error_count + 1
        /\ sources'[id].last_error = message

C4_FeedStep ==
    \A j \in FetchSlots :
        (HandlerStep(j) /\ jobs[j].g.retrErr = "none" /\ jobs'[j].g.retrErr = "rss")
            => /\ jobs'[j].state \in Thrown
               /\ jobs'[j].g.failureIssued
               /\ jobs'[j].failedReason # ErrHealth
                     => FailureRecorded(j, jobs'[j].failedReason)

C4_AnyStep ==
    \A j \in FetchSlots :
        (HandlerStep(j) /\ jobs[j].g.retrErr = "none" /\ jobs'[j].g.retrErr # "none")
            => /\ jobs'[j].state \in Thrown
               /\ jobs'[j].g.failureIssued

MissingOrInactive(srcs, id) == id \notin DOMAIN srcs \/ ~srcs[id].is_active

C5_Step ==
    \A j \in FetchSlots :
        (HandlerStep(j) /\ MissingOrInactive(sources, jobs[j].data.sourceId))
            => /\ jobs'[j].state \in Thrown
               /\ ~jobs'[j].g.retrieved
               /\ \A p \in ProcessSlots : jobs'[p] = jobs[p]
               /\ jobs'[j].g.failureIssued
               /\ (jobs'[j].failedReason # ErrHealth
                     /\ jobs[j].data.sourceId \in DOMAIN sources)
                     => FailureRecorded(j, jobs'[j].failedReason)

\* C5: a Fetch job whose source is missing or inactive fails before any
\* retrieval and without enqueueing a Process job, and the failure is
\* recorded on the source's row whenever the row exists.
C5_MissingSourceFails == [][C5_Step]_vars

\* the inactive source's job failed with the failure on its row, and the
\* job of a source without a row failed too
C5_Witness ==
    \E j \in FetchSlots :
        /\ jobs[j].data.sourceId = "s4"
        /\ jobs[j].state = "delayed"
        /\ jobs[j].failedReason = ErrSource
        /\ sources["s4"].error_count = 1
        /\ sources["s4"].last_error = ErrSource

\* C6 as stated: no Fetch attempt owes its outcome to a failed update of
\* the health counters.
C6_Original == \A j \in FetchSlots : jobs[j].failedReason # ErrHealth

\* a feed was read, the success update was rejected, the job failed
C6_Witness ==
    \E j \in FetchSlots :
        /\ jobs[j].state = "delayed"
        /\ jobs[j].g.retrieved /\ jobs[j].g.retrErr = "none"
        /\ jobs[j].failedReason = ErrHealth

C7_Step ==
    \A j \in FetchSlots :
        LET id == jobs[j].data.sourceId
        IN  /\ (HandlerStep(j) /\ jobs[j].pc = "begin" /\ jobs'[j].pc = "loop")
                  => /\ jobs'[j].g.retrieved
                     /\ sources'[id].success_count = sources[id].success_count + 1
                     /\ sources'[id].last_fetched_at = "NOW"
                     /\ sources'[id].last_error = NULL
            /\ (HandlerStep(j) /\ jobs[j].pc = "loop")
                  => /\ sources'[id].success_count = sources[id].success_count
                     /\ sources'[id].last_fetched_at = sources[id].last_fetched_at

\* C7: once retrieval succeeded the Fetch job records a success on the
\* source (success_count plus one, last_fetched_at set, last_error cleared)
\* before it looks at the candidates, and nothing that happens to the
\* candidates takes it back, zero usable candidates included.
C7_SuccessRecorded == [][C7_Step]_vars

\* a feed of unusable items: the job completed, the success is on the row
C7_Witness ==
    \E j \in FetchSlots :
        /\ jobs[j].state = "completed"
        /\ jobs[j].total = 2 /\ jobs[j].queued = 0
        /\ sources[jobs[j].data.sourceId].success_count = 1
        /\ sources[jobs[j].data.sourceId].last_fetched_at = "NOW"
        /\ sources[jobs[j].data.sourceId].last_error = NULL

\* the attempts a job of the queue gets by itself
AttemptLimit(queue) ==
    CASE queue = "fetch" -> 3
      [] queue = "process" -> 2
      [] queue = "publish" -> 1

C8_State ==
    \A j \in JobIds :
        jobs[j].state # "absent"
            => /\ jobs[j].attemptsMade <= AttemptLimit(QueueOf(j)) + jobs[j].manual
               /\ jobs[j].state = "failed"
                     => jobs[j].attemptsMade >= AttemptLimit(QueueOf(j))
               /\ jobs[j].state = "delayed"
                     => jobs[j].attemptsMade < AttemptLimit(QueueOf(j))
               /\ (jobs[j].state = "waiting" /\ jobs[j].manual = 0)
                     => jobs[j].attemptsMade < AttemptLimit(QueueOf(j))

C8_Step ==
    \A j \in JobIds :
        (jobs[j].state = "failed" /\ jobs'[j] # jobs[j])
            => /\ jobs'[j].state = "waiting"
               /\ jobs'[j].manual = jobs[j].manual + 1

\* C8 (amended): a Fetch job that keeps failing is attempted 3 times in all
\* (2 retries), a Process job 2 times (1 retry), a Publish job once (no
\* retry); then it stays failed until an operator retries it, and each
\* manual retry buys one more attempt.
C8_AttemptLimits == []C8_State /\ [][C8_Step]_vars

\* a Fetch job at rest in failed after its third attempt
C8_Witness ==
    \E j \in FetchSlots :
        /\ jobs[j].state = "failed"
        /\ jobs[j].attemptsMade = 3
        /\ jobs[j].manual = 0

\* the retries the statement promises: 3, 2 and none
RetriesStated(queue) ==
    CASE queue = "fetch" -> 3
      [] queue = "process" -> 2
      [] queue = "publish" -> 0

\* C8 as stated: a job left to itself comes to rest in failed after the
\* stated number of retries.
C8_Original ==
    \A j \in JobIds :
        (jobs[j].state = "failed" /\ jobs[j].manual = 0)
            => jobs[j].attemptsMade - 1 = RetriesStated(QueueOf(j))

RetriesRemain(job) == job.attemptsMade < job.attempts

C9_Transition(j) ==
    LET a == jobs[j]
        b == jobs'[j]
    IN  \/ a.state = b.state /\ (a.state = "completed" => b = a)
        \/ a.state = "absent" /\ b.state = "waiting"
        \/ a.state = "waiting" /\ b.state = "active"
        \/ a.state = "active" /\ b.state = "completed"
              /\ b.failedReason = a.failedReason /\ ~b.g.failureIssued
        \/ a.state = "active" /\ b.state = "delayed"
              /\ RetriesRemain(b) /\ b.backoff /\ b.failedReason # NoError
        \/ a.state = "active" /\ b.state = "waiting"
              /\ RetriesRemain(b) /\ ~b.backoff /\ b.failedReason # NoError
        \/ a.state = "active" /\ b.state = "failed"
              /\ ~RetriesRemain(b) /\ b.failedReason # NoError
        \/ a.state = "delayed" /\ b.state = "waiting"
        \/ a.state = "failed" /\ b.state = "waiting" /\ b.manual = a.manual + 1

\* C9 (amended): a job moves waiting -> active -> completed; an attempt
\* that throws ends in delayed (then waiting) while retries remain and in
\* failed when none remain, never in completed; a failed job returns to
\* waiting only by an operator's retry; a completed job never changes.
C9_JobTransitions == [][\A j \in JobIds : C9_Transition(j)]_vars

\* a job that failed once, waited out its backoff, ran again and completed
C9_Witness ==
    \E j \in JobIds :
        /\ jobs[j].state = "completed"
        /\ jobs[j].attemptsMade = 2
        /\ jobs[j].failedReason # NoError

C9_StatedTransition(j) ==
    LET a == jobs[j]
        b == jobs'[j]
    IN  \/ a.state = b.state
        \/ a.state = "absent" /\ b.state = "waiting"
        \/ a.state = "waiting" /\ b.state = "active"
        \/ a.state = "active" /\ b.state \in {"completed", "failed"}
        \/ a.state = "failed" /\ b.state = "waiting" /\ RetriesRemain(a)

\* C9 as stated: waiting -> active -> completed or failed, and failed ->
\* waiting only while retries remain.
C9_Original == [][\A j \in JobIds : C9_StatedTransition(j)]_vars

C10_Step ==
    \A p \in ProcessSlots :
        (HandlerStep(p) /\ jobs'[p].state \in Thrown) => articles' = articles

C10_State ==
    \A a \in articles :
        /\ \E p \in ProcessSlots :
              jobs[p].state = "completed" /\ AttemptId(p, jobs[p]) = a.id
        /\ a.status = "published"
        /\ a.featured_image # NoImage

\* C10: a Process execution that fails, at whatever step, leaves the
\* Article store as it was; every article row is the complete row of an
\* execution that completed.
C10_FailureWritesNothing == []C10_State /\ [][C10_Step]_vars

\* the execution of a queued candidate failed at its insert: no row
C10_Witness ==
    /\ articles = {}
    /\ \E p \in ProcessSlots :
          /\ jobs[p].state = "delayed"
          /\ jobs[p].by # NoProducer
          /\ jobs[p].failedReason = ErrStorage

PublishSlots == SlotsOf("publish")

C11_State ==
    \A a \in articles : a.status = "published" /\ a.published_at # NULL

C11_Step ==
    /\ \A a \in articles' \ articles :
          a.status = "published" /\ a.published_at # NULL
    /\ \A j \in FetchSlots \cup ProcessSlots :
          HandlerStep(j) => \A p \in PublishSlots : jobs'[p] = jobs[p]

\* C11: every Article is inserted already published, with its publication
\* time set by the insert; no step of a Fetch or Process handler enqueues
\* (or touches) a Publish job.
C11_BornPublished == []C11_State /\ [][C11_Step]_vars

\* a Process execution has inserted its row and the Publish queue is empty
C11_Witness ==
    /\ \E a \in articles : \E p \in ProcessSlots :
          /\ jobs[p].state = "completed"
          /\ AttemptId(p, jobs[p]) = a.id
          /\ a.published_at = "NOW"
    /\ \A p \in PublishSlots : jobs[p].state = "absent"

\* the payload misses a precondition of the Process stage
C12_Unfit(data) ==
    \/ PlainTextLength(CleanHTML(data.content)) < MinContentLength
    \/ data.imageUrl = NoImage

C12_Step ==
    \A p \in ProcessSlots :
        (HandlerStep(p) /\ C12_Unfit(jobs[p].data)) =>
            /\ jobs'[p].state \in Thrown
            /\ jobs'[p].failedReason # NoError
            /\ articles' = articles

\* C12: the Process stage validates its payload again: when the plain text
\* of the cleaned content is shorter than 500 characters or the image is
\* absent, the execution fails (it is not skipped) and persists nothing.
C12_RevalidationFails == [][C12_Step]_vars

\* a candidate that passed the Fetch gates on its raw length was refused by
\* the Process stage on the length of its plain text
C12_Witness ==
    /\ articles = {}
    /\ \E p \in ProcessSlots :
          /\ jobs[p].state \in Thrown
          /\ jobs[p].by # NoProducer
          /\ jobs[p].data.imageUrl # NoImage
          /\ jobs[p].failedReason = ErrTooShort

\* no attempt of a Process job has ended on an error of the enrichment
C13_State ==
    \A p \in ProcessSlots :
        jobs[p].state # "absent" => jobs[p].failedReason # ErrEnrich

\* a run whose source exists and whose payload is fit ends with its row
\* persisted, unless storage refused a statement
C13_Step ==
    \A p \in ProcessSlots :
        (/\ HandlerStep(p)
         /\ SourceRows(sources, jobs[p].data.sourceId) # {}
         /\ ~C12_Unfit(jobs[p].data)) =>
            \/ /\ jobs'[p].state = "completed"
               /\ \E a \in articles' \ articles :
                     /\ a.id = AttemptId(p, jobs[p])
                     /\ a.summary \in {"ai", "extractive"}
                     /\ a.content_rewritten \in {"researched", "basic"}
                     /\ a.category_id \in {"classified", "keywords"}
            \/ /\ jobs'[p].state \in Thrown
               /\ jobs'[p].failedReason \in {ErrStorage, ErrUnique}

\* C13: when the source exists, the preconditions hold and storage
\* succeeds, the failure or timeout of any external AI call (summarization,
\* classification, web research) never fails the Process job: the fallback
\* value is used and the Article is persisted.
C13_AiFailureTolerated == []C13_State /\ [][C13_Step]_vars

\* every AI call failed and the row was persisted with the three fallbacks
C13_Witness ==
    \E a \in articles : \E p \in ProcessSlots :
        /\ jobs[p].state = "completed"
        /\ AttemptId(p, jobs[p]) = a.id
        /\ a.summary = "extractive"
        /\ a.content_rewritten = "basic"
        /\ a.category_id = "keywords"

\* the Fetch jobs a step has added to the queue
C14_New == {j \in FetchSlots : jobs[j].state = "absent" /\ jobs'[j].state # "absent"}

C14_Step ==
    (runs' < runs /\ probe'.op = "schedule") =>
        /\ ~probe'.threw
        /\ Cardinality(C14_New) <= 5
        /\ probe'.queued = Cardinality(C14_New)
        /\ \A j \in FetchSlots \ C14_New : jobs'[j] = jobs[j]
        /\ \A j \in C14_New :
              /\ jobs'[j].state = "waiting"
              /\ jobs'[j].data.sourceId \in DOMAIN sources
              /\ sources[jobs'[j].data.sourceId].is_active
              /\ \A k \in C14_New : k # j => jobs'[k].data.sourceId # jobs'[j].data.sourceId
        /\ probe'.selectOk =>
              {jobs'[j].data.sourceId : j \in C14_New} =
                  {probe'.selected[i] : i \in 1..Len(probe'.selected)} \ probe'.failed

C15_Original ==
    \A a \in articles : \A url \in {L1, L1q, L2} :
        NormalizeUrl(url) = NormalizeUrl(a.source_url) =>
            IsDuplicate(url, OtherTitle, OtherContent, articles, TRUE)

\* an article whose link carries a query string and upper-case letters is
\* stored, and the same link is not recognised
C15_Witness ==
    \E a \in articles :
        /\ a.source_url = L1q
        /\ ~IsDuplicate(L1q, OtherTitle, OtherContent, articles, TRUE)

\* the three checks of the claim, each against the stored articles
C16_UrlMatch == \E a \in articles : a.source_url = NormalizeUrl(probe.url)

C16_TitleMatch ==
    \E a \in articles : ToLowerCase(a.title) = ToLowerCase(probe.title)

C16_HashMatch ==
    \E a \in articles :
        LowerTrim(a.content_original) = GenerateContentHash(probe.content)

\* C16: when storage answers every lookup, isDuplicate answers true if and
\* only if the normalized URL, the case-insensitive title or the hash of the
\* lower-cased trimmed content matches a stored article.
C16_ThreeChecks ==
    (probe.op = "isDuplicate" /\ probe.dbOk) =>
        (probe.result <=> (C16_UrlMatch \/ C16_TitleMatch \/ C16_HashMatch))

\* a candidate found by its title alone, written in another letter case
C16_Witness ==
    /\ probe.op = "isDuplicate"
    /\ probe.dbOk
    /\ probe.result
    /\ C16_TitleMatch
    /\ ~C16_UrlMatch
    /\ ~C16_HashMatch
    /\ \A a \in articles : a.title # probe.title

\* C17 as stated: no two stored Articles have the same source URL.
C17_Original ==
    \A a, b \in articles : a # b => a.source_url # b.source_url

C17_State ==
    \A a, b \in articles :
        (a # b /\ a.source_url = b.source_url) => a.slug # b.slug

\* a candidate is queued only when no stored article carries its normalized
\* URL at the time it is evaluated
C17_Step ==
    \A p \in ProcessSlots :
        (jobs[p].state = "absent" /\ jobs'[p].state # "absent") =>
            ~\E a \in articles : a.source_url = NormalizeUrl(jobs'[p].data.link)

\* C17, amended: with storage answering the duplicate lookups, a candidate
\* is queued only if no stored article carries its normalized URL when the
\* Fetch job evaluates it; the insert does not look at the source URL, so
\* two stored Articles may share a source URL, and when they do their slugs
\* differ.
C17_BestEffortUrl == []C17_State /\ [][C17_Step]_vars

\* two Fetch jobs evaluated the same link before either row existed: both
\* rows are stored
C17_Witness ==
    \E a, b \in articles :
        /\ a # b
        /\ a.source_url = b.source_url
        /\ a.title # b.title
        /\ \E f, g \in FetchSlots :
              f # g /\ jobs[f].state = "completed" /\ jobs[g].state = "completed"

C18_State ==
    \A a, b \in articles : a # b => a.slug # b.slug

C18_Step ==
    \A p \in ProcessSlots :
        (/\ HandlerStep(p)
         /\ \E a \in articles : a.slug = Slug(jobs[p].data.title)) =>
            /\ articles' = articles
            /\ jobs'[p].failedReason # NoError
            /\ jobs'[p].state =
                  IF jobs[p].attemptsMade < ProcessAttempts THEN "delayed" ELSE "failed"

\* C18: no two stored Articles share a slug, under any interleaving of
\* Process jobs; a Process job whose derived slug already exists fails
\* (retried while attempts are left) and inserts nothing.
C18_SlugUnique == []C18_State /\ [][C18_Step]_vars

\* the insert of a Process job was refused because another title had
\* derived its slug; the job waits for its retry
C18_Witness ==
    \E p \in ProcessSlots : \E a \in articles :
        /\ jobs[p].state = "delayed"
        /\ jobs[p].failedReason = ErrUnique
        /\ a.slug = Slug(jobs[p].data.title)
        /\ a.title # jobs[p].data.title

\* C19 as stated: a scrape that was performed replaces the content exactly
\* when the scraped word count is at least 1.5 times the original one.
C19_Original ==
    (probe.op = "scrapeGate" /\ probe.attempted /\ probe.scraped # NoScrape) =>
        (probe.replaced <=> 2 * probe.scraped.words >= 3 * probe.content.words)

\* C19, amended: when a secondary scrape is attempted, the content is
\* replaced by the scraped content exactly when the scrape returned more
\* than 500 characters and its word count is strictly greater than 1.5 times
\* the original word count (exactly 1.5 times keeps the original); otherwise,
\* including when the scrape fails, the original content is kept; the
\* attempt never throws.
C19_StrictlyBetter ==
    (probe.op = "scrapeGate" /\ probe.attempted) =>
        /\ probe.replaced <=>
              /\ probe.scraped # NoScrape
              /\ probe.scraped.len > 500
              /\ 2 * probe.scraped.words > 3 * probe.content.words
        /\ probe.final = IF probe.replaced THEN probe.scraped ELSE probe.content
        /\ ~probe.threw

\* the scrape brought exactly 1.5 times the words (120 against 80) and the
\* original content was kept
C19_Witness ==
    /\ probe.op = "scrapeGate"
    /\ probe.attempted
    /\ probe.scraped.len > 500
    /\ 2 * probe.scraped.words = 3 * probe.content.words
    /\ probe.content.words > 0
    /\ probe.final = probe.content

\* C20: a secondary scrape is attempted exactly when the source type is
\* rss-scrape or isFullContent is false for the item's content; when none is
\* attempted the content stays as the feed gave it.
C20_ScrapeWhenNeeded ==
    probe.op = "scrapeGate" =>
        /\ probe.attempted <=>
              (probe.sourceType = "rss-scrape" \/ ~IsFullContent(probe.content))
        /\ ~probe.attempted => (~probe.replaced /\ probe.final = probe.content)

\* a source marked rss-full delivered a snippet: the scrape was attempted
C20_Witness ==
    /\ probe.op = "scrapeGate"
    /\ probe.sourceType = "rss-full"
    /\ ~IsFullContent(probe.content)
    /\ probe.content.words >= FullMinWords
    /\ probe.attempted

\* C21 as stated: isFullContent answers true exactly when the content holds
\* no "read more"/"continue reading" phrase, does not end with an ellipsis,
\* and its tag-stripped text has at least 250 words and 1000 characters.
C21_Original ==
    probe.op = "isFullContent" =>
        (probe.result <=>
            /\ ~probe.text.empty
            /\ probe.text.phrase \notin {"read more", "continue reading"}
            /\ probe.text.dots # "end"
            /\ probe.text.words >= 250
            /\ probe.text.chars >= 1000)

\* a long text with three dots in its middle and no phrase is taken for a
\* snippet
C21_Witness ==
    /\ probe.op = "isFullContent"
    /\ probe.text.phrase = "none"
    /\ probe.text.dots = "middle"
    /\ probe.text.words >= 250
    /\ probe.text.chars >= 1000
    /\ ~probe.result

\* the publish date is less than six hours before now, or there is none
C22_Recent ==
    \/ probe.pubDate.kind = "none"
    \/ probe.pubDate.kind = "date" /\ probe.pubDate.age < 6 * 60 * 60 * 1000

\* C22: an article is marked trending exactly when it is recent (published
\* less than 6 hours before processing, or without publish date) and at
\* least one breaking-news signal is present; published more than 6 hours
\* ago it is never trending.
C22_TrendingRule ==
    probe.op = "shouldBeTrending" =>
        /\ probe.result <=>
              (C22_Recent /\ (probe.inTitle \/ probe.inContent \/ probe.inKeywords))
        /\ (probe.pubDate.kind = "date" /\ probe.pubDate.age > 6 * 60 * 60 * 1000)
              => ~probe.result

\* published exactly six hours ago with every signal present: not trending
C22_Witness ==
    /\ probe.op = "shouldBeTrending"
    /\ probe.pubDate = DateAged(6 * 60 * 60 * 1000)
    /\ probe.inTitle /\ probe.inContent /\ probe.inKeywords
    /\ ~probe.result

\* the number of quality checks that hold
C23_Score ==
    (IF probe.imageUrl # NoImage THEN 1 ELSE 0)
    + (IF probe.wordCount >= 500 THEN 1 ELSE 0)
    + (IF probe.paragraphs >= 3 THEN 1 ELSE 0)
    + (IF probe.titleLen >= 30 /\ probe.titleLen <= 100 THEN 1 ELSE 0)
    + (IF ~probe.clickbait THEN 1 ELSE 0)

\* C23: an article is marked featured exactly when at least 4 of the 5
\* quality checks hold (image, 500 words, 3 paragraphs, title length 30 to
\* 100, title not clickbait-shaped); without image and with the other four
\* it is featured.
C23_FeaturedRule ==
    probe.op = "shouldBeFeatured" => (probe.result <=> C23_Score >= 4)

\* no image, the four other checks hold: featured
C23_Witness ==
    /\ probe.op = "shouldBeFeatured"
    /\ probe.imageUrl = NoImage
    /\ C23_Score = 4
    /\ probe.result

\* C24 as stated: the slug is lower-cased, made only of word characters and
\* single hyphens, has no leading or trailing hyphen and at most 100
\* characters.
C24_Original ==
    probe.op = "slug" =>
        LET slug == probe.slug
        IN  /\ \A i \in 1..Len(slug) : slug[i] \in {"a", "b", "_", "0", "-"}
            /\ \A i \in 1..(Len(slug) - 1) : ~(slug[i] = "-" /\ slug[i + 1] = "-")
            /\ Len(slug) > 0 => (slug[1] # "-" /\ slug[Len(slug)] # "-")
            /\ Len(slug) <= 100

\* a title that ends with a space and a punctuation mark: its slug ends
\* with a hyphen
C24_Witness ==
    /\ probe.op = "slug"
    /\ probe.title = <<"A", " ", "!">>
    /\ probe.slug = <<"a", "-">>

\* C25 as stated: the fallback summary of a text of length L has at least
\* 0.8 * max(0.25 * L, 200) characters, whatever its sentences.
C25_Original ==
    probe.op = "generateEnhancedSummary" =>
        /\ 40 * probe.length >= 8 * probe.L
        /\ 10 * probe.length >= 8 * 200

\* ten sentences were selected and the summary is shorter than 0.8 times
\* the target
C25_Witness ==
    /\ probe.op = "generateEnhancedSummary"
    /\ probe.L >= 500
    /\ probe.selected = 10
    /\ probe.sentences > 10
    /\ 10 * probe.length < 8 * probe.target

\* C26 as stated: one execution of a Fetch job increments exactly one of the
\* two counters of its source: a step that ends the execution in failure
\* leaves success_count unchanged, and once the success is recorded (the
\* handler is in its loop) no step of the execution records an error.
C26_Original ==
    [][\A j \in FetchSlots :
          (HandlerStep(j) /\ jobs[j].data.sourceId \in DOMAIN sources) =>
              LET id == jobs[j].data.sourceId
              IN  /\ jobs'[j].state \in Thrown =>
                        sources'[id].success_count = sources[id].success_count
                  /\ jobs[j].pc = "loop" =>
                        sources'[id].error_count = sources[id].error_count]_vars

\* the first execution for a source recorded its success, then failed to
\* enqueue the Process job: both counters stand at one
C26_Witness ==
    \E j \in FetchSlots :
        /\ jobs[j].state = "delayed"
        /\ jobs[j].attemptsMade = 1
        /\ jobs[j].failedReason = ErrEnqueue
        /\ sources[jobs[j].data.sourceId].success_count = 1
        /\ sources[jobs[j].data.sourceId].error_count = 1

\* the Process jobs the Fetch stage has enqueued
C27_FromFetch == {p \in ProcessSlots : jobs[p].state # "absent" /\ jobs[p].by # NoProducer}

\* C27 as stated: every Process job enqueued by the Fetch stage passes the
\* preconditions of the Process stage.
C27_Original ==
    \A p \in C27_FromFetch :
        /\ PlainTextLength(CleanHTML(jobs[p].data.content)) >= 500
        /\ jobs[p].data.imageUrl # NoImage

C27_State ==
    \A p \in C27_FromFetch :
        /\ jobs[p].data.imageUrl # NoImage
        /\ jobs[p].data.content.len >= 500
        /\ jobs[p].failedReason # ErrNoImage

C27_Step ==
    \A p \in C27_FromFetch :
        HandlerStep(p) =>
            /\ jobs'[p].state = "completed" =>
                  PlainTextLength(CleanHTML(jobs[p].data.content)) >= 500
            /\ (/\ PlainTextLength(CleanHTML(jobs[p].data.content)) < 500
                /\ jobs'[p].failedReason # ErrStorage) =>
                  jobs'[p].state \in Thrown /\ jobs'[p].failedReason = ErrTooShort

\* C27, amended: every Process job enqueued by the Fetch stage carries an
\* image and a raw content of at least 500 characters, so it never fails on
\* the image precondition; it clears the length precondition only if the
\* plain text of its sanitized content also has 500 characters, which the
\* raw length does not imply: otherwise, storage answering, it fails with
\* "content too short".
C27_FetchGateIsWeaker == []C27_State /\ [][C27_Step]_vars

\* a candidate the Fetch stage validated has failed the re-validation on
\* both attempts of its Process job
C27_Witness ==
    \E p \in C27_FromFetch :
        /\ jobs[p].state = "failed"
        /\ jobs[p].attemptsMade = ProcessAttempts
        /\ jobs[p].failedReason = ErrTooShort
        /\ jobs[p].data.content.len >= MinContentLength

\* C28: when the lookups of isDuplicate fail, it answers false instead of
\* raising: the Fetch stage treats the candidate as new and queues it although
\* it is already stored, and the Fetch job never fails because of the failed
\* lookup (the only failure of the loop is a failed enqueue).
C28_Step ==
    \A j \in FetchSlots :
        (HandlerStep(j) /\ jobs[j].pc = "loop" /\ ~LoopDone(jobs[j])) =>
            \/ /\ jobs'[j].state = "active"
               /\ jobs'[j].queued = jobs[j].queued + 1
               /\ jobs'[j].skipped = jobs[j].skipped
               /\ \E p \in ProcessSlots :
                     /\ jobs[p].state = "absent"
                     /\ jobs'[p].state = "waiting"
                     /\ jobs'[p].by = AttemptId(j, jobs[j])
                     /\ NormalizeUrl(jobs'[p].data.link) = OutageRow.source_url
            \/ /\ jobs'[j].state \in Thrown
               /\ jobs'[j].failedReason \in {ErrEnqueue, ErrHealth}
               /\ jobs'[j].queued = jobs[j].queued

C28_FailedLookupMeansNew == [][C28_Step]_vars

\* the fetch completed and its Process job carries the stored article again
C28_Witness ==
    \E j \in FetchSlots : \E p \in ProducedBy(AttemptId(j, jobs[j])) :
        /\ jobs[j].state = "completed"
        /\ jobs[j].queued = 1
        /\ \E a \in articles :
              /\ a.source_url = NormalizeUrl(jobs[p].data.link)
              /\ a.title = jobs[p].data.title

\* C29: every Fetch job, whichever path enqueued it (scheduler, test routes,
\* refresh of a source by an administrator), carries 3 attempts and an
\* exponential backoff whose base delay is 5 seconds.
C29_Original ==
    \A j \in FetchSlots :
        jobs[j].state # "absent" =>
            /\ jobs[j].attempts = 3
            /\ jobs[j].backoff
            /\ jobs[j].delay = 5000

\* a Fetch job enqueued by refreshSource: 3 attempts, base delay 2 seconds
C29_Witness ==
    \E j \in FetchSlots :
        /\ jobs[j].state = "waiting"
        /\ jobs[j].attempts = 3
        /\ jobs[j].backoff
        /\ jobs[j].delay = 2000

\* C30: for every input length, the minimum length summarizeText passes to
\* the summarization service (the target) never exceeds the maximum it
\* passes (the target plus 100, capped at 500).
C30_Original ==
    probe.op = "generateAISummary" => probe.minLength <= probe.maxLength

\* a text of 2004 characters: the service is asked for at least 501 and at
\* most 500 characters
C30_Witness ==
    /\ probe.op = "generateAISummary"
    /\ probe.L = 2004
    /\ probe.minLength = 501
    /\ probe.maxLength = 500

====
